---- MODULE Spec2Model ----
(***************************************************************************)
(* A model of commands/print.go of boom: the Report that drains the        *)
(* results channel (finalize) and renders the aggregate (print,            *)
(* printHistogram, printLatencies, printStatusCodes, printErrors,          *)
(* printCSV).                                                              *)
(*                                                                         *)
(* Representation choices:                                                 *)
(*  - a time.Duration is a natural number of ticks, and duration.Seconds() *)
(*    keeps the value in ticks (a strictly monotone rescaling on the range *)
(*    used here); sums and comparisons of latencies are exact;             *)
(*  - a float64 quotient is a record [cls, num, den]: cls is "fin" for a   *)
(*    finite quotient num/den, "inf" for x/0 with x # 0 and "nan" for 0/0, *)
(*    as IEEE-754 division gives in Go;                                    *)
(*  - a Go map[K]int that is only ever incremented is a function from the  *)
(*    key universe to counts; a key is in the Go map iff its count is > 0; *)
(*  - ranging over a Go map visits the keys in an unspecified order: each  *)
(*    print picks any permutation of the keys;                             *)
(*  - standard output is the sequence of Printf calls (tag and arguments), *)
(*    grouped by the section that makes them;                              *)
(*  - the histogram's bucket edges are kept multiplied by bc, so that      *)
(*    Fastest + bs*i is exact.                                             *)
(* Slice indices are those of the source (0-based); a TLA+ sequence is     *)
(* read at index + 1.                                                      *)
(***************************************************************************)
EXTENDS Integers, Sequences, FiniteSets

\* ------------------------------------------------------------------ bounds
\* Results the producers send in one run.
MaxResults == 3
\* Capacity of the buffered results channel.
QueueCap == 2
\* Calls of print on one Report (finalize's own call, and calls after it).
MaxPrints == 2
\* Longest latency slice and largest latency of the rendering runs.
MaxLen == 12
MaxDur == 2

\* --------------------------------------------------------- program constants
bc == 10
barWidth == 40
pctls == <<10, 25, 50, 75, 90, 95, 99>>

\* ------------------------------------------------------------- input domains
NoErr == "nil"
Errs == {"timeout", "refused"}
Codes == {200, 300}
Durations == {1, 2}
Lengths == {0, 5}
Totals == {0, 2}
Outputs == {"", "quiet", "csv"}
Producers == {"p1", "p2"}

\* A *result: err is NoErr or the error's text. The results without an error
\* pair each duration with each status code; the shorter ones of a 2xx and the
\* longer ones of another code carry a body.
OkResults == {x \in [err : {NoErr}, duration : Durations, statusCode : Codes, contentLength : Lengths] : (x.contentLength > 0) <=> ((x.duration = 1) <=> (x.statusCode = 200))}
ErrResults == [err : Errs, duration : {1}, statusCode : {0}, contentLength : {0}]
Results == OkResults \cup ErrResults

\* ------------------------------------------------------------------ helpers
RECURSIVE SumSeq(_)
SumSeq(s) == IF s = <<>> THEN 0 ELSE Head(s) + SumSeq(Tail(s))

RECURSIVE SumOver(_, _)
SumOver(f, S) == IF S = {} THEN 0 ELSE LET x == CHOOSE y \in S : TRUE IN f[x] + SumOver(f, S \ {x})

SumMap(m) == SumOver(m, DOMAIN m)

\* The keys a Go map holds.
Keys(m) == {k \in DOMAIN m : m[k] > 0}

\* len(m) of a Go map.
MapLen(m) == Cardinality(Keys(m))

\* m[k]++
MapInc(m, k) == [m EXCEPT ![k] = @ + 1]

\* The orders in which a range over a map with keys S may visit them.
Perms(S) == {s \in [1..Cardinality(S) -> S] : \A a, b \in 1..Cardinality(S) : a # b => s[a] # s[b]}

\* float64 division.
FZero == [cls |-> "fin", num |-> 0, den |-> 1]
FDiv(a, b) == [cls |-> IF b # 0 THEN "fin" ELSE IF a = 0 THEN "nan" ELSE "inf", num |-> a, den |-> b]

\* sort.Float64s: ascending, by insertion.
RECURSIVE Insert(_, _)
Insert(x, s) == IF s = <<>> THEN <<x>> ELSE IF x <= Head(s) THEN <<x>> \o s ELSE <<Head(s)>> \o Insert(x, Tail(s))

RECURSIVE SortFloat64s(_)
SortFloat64s(s) == IF s = <<>> THEN <<>> ELSE Insert(Head(s), SortFloat64s(Tail(s)))

IsSorted(s) == \A a \in 1..Len(s) - 1 : s[a] <= s[a + 1]

\* How many times x occurs in s.
Occ(s, x) == Cardinality({a \in 1..Len(s) : s[a] = x})

\* ------------------------------------------------------------------- Report
newReport(output) == [AvgTotal |-> 0, Fastest |-> 0, Slowest |-> 0, Average |-> FZero, RPS |-> FZero, SuccessRPS |-> FZero, Total |-> 0, StatusCodeDist |-> [c \in Codes |-> 0], Lats |-> <<>>, Errors |-> [e \in Errs |-> 0], SizeTotal |-> 0, output |-> output]

\* A faulty variant of IsSuccess: the upper end of the range taken in.
IsSuccessUpTo300(code) == code >= 200 /\ code <= 300

\* res.statusCode >= 200 && res.statusCode < 300
IsSuccess(code) == code >= 200 /\ code < 300

\* A faulty variant of Fold: the latency is appended before the error is looked at.
FoldLatencyFirst(rep, res) == IF res.err # NoErr THEN [rep EXCEPT !.Lats = Append(@, res.duration), !.Errors = MapInc(@, res.err)] ELSE [rep EXCEPT !.Lats = Append(@, res.duration), !.AvgTotal = @ + res.duration, !.StatusCodeDist = MapInc(@, res.statusCode), !.SizeTotal = IF res.contentLength > 0 THEN @ + res.contentLength ELSE @]

\* The body of finalize's receive case: res folded into the Report.
Fold(rep, res) == IF res.err # NoErr THEN [rep EXCEPT !.Errors = MapInc(@, res.err)] ELSE [rep EXCEPT !.Lats = Append(@, res.duration), !.AvgTotal = @ + res.duration, !.StatusCodeDist = MapInc(@, res.statusCode), !.SizeTotal = IF res.contentLength > 0 THEN @ + res.contentLength ELSE @]

\* successCnt after the receive case.
FoldSuccess(cnt, res) == IF res.err = NoErr /\ IsSuccess(res.statusCode) THEN cnt + 1 ELSE cnt

\* The default case's assignments before it calls print.
SetTotals(rep, total, cnt) == [rep EXCEPT !.Total = total, !.RPS = FDiv(Len(rep.Lats), total), !.SuccessRPS = FDiv(cnt, total), !.Average = FDiv(rep.AvgTotal, Len(rep.Lats))]

\* ------------------------------------------------------------ printHistogram
\* (r.Slowest - r.Fastest) / bc, times bc.
bs(rep) == rep.Slowest - rep.Fastest

HistInit(rep) == [buckets |-> [k \in 1..bc + 1 |-> IF k <= bc THEN bc * rep.Fastest + bs(rep) * (k - 1) ELSE bc * rep.Slowest], counts |-> [k \in 1..bc + 1 |-> 0], bi |-> 0, i |-> 0, max |-> 0]

\* A faulty variant of InBucket: a strict comparison.
InBucketStrict(lat, edge) == bc * lat < edge

\* r.Lats[i] <= buckets[bi]
InBucket(lat, edge) == bc * lat <= edge

\* One iteration of the counting loop.
HistStep(h, lats) == IF InBucket(lats[h.i + 1], h.buckets[h.bi + 1]) THEN [h EXCEPT !.i = @ + 1, !.counts[h.bi + 1] = @ + 1, !.max = IF @ < h.counts[h.bi + 1] + 1 THEN h.counts[h.bi + 1] + 1 ELSE @] ELSE IF h.bi < bc THEN [h EXCEPT !.bi = @ + 1] ELSE h

HistMore(h, lats) == h.i < Len(lats)

RECURSIVE HistRun(_, _)
HistRun(h, lats) == IF HistMore(h, lats) THEN HistRun(HistStep(h, lats), lats) ELSE h

\* The rendering loop: edge, count and bar length of each bucket.
HistLines(h) == [k \in 1..bc + 1 |-> <<h.buckets[k], h.counts[k], IF h.max > 0 THEN (h.counts[k] * barWidth) \div h.max ELSE 0>>]

printHistogram(rep) == HistLines(HistRun(HistInit(rep), rep.Lats))

\* ------------------------------------------------------------ printLatencies
\* assigned: the indices j of data that the loop has written.
PctlInit == [data |-> [k \in 1..Len(pctls) |-> 0], j |-> 0, i |-> 0, assigned |-> {}]

\* A faulty variant of PctlStep: the slice read from its end.
PctlStepFromEnd(p, lats) == IF (p.i * 100) \div Len(lats) >= pctls[p.j + 1] THEN [p EXCEPT !.data[p.j + 1] = lats[Len(lats) - p.i], !.j = @ + 1, !.i = @ + 1, !.assigned = @ \cup {p.j}] ELSE [p EXCEPT !.i = @ + 1]

\* One iteration of the recording loop.
PctlStep(p, lats) == IF (p.i * 100) \div Len(lats) >= pctls[p.j + 1] THEN [p EXCEPT !.data[p.j + 1] = lats[p.i + 1], !.j = @ + 1, !.i = @ + 1, !.assigned = @ \cup {p.j}] ELSE [p EXCEPT !.i = @ + 1]

PctlMore(p, lats) == p.i < Len(lats) /\ p.j < Len(pctls)

RECURSIVE PctlRun(_, _)
PctlRun(p, lats) == IF PctlMore(p, lats) THEN PctlRun(PctlStep(p, lats), lats) ELSE p

\* The rendering loop: a percentile is printed when data[i] > 0.
PctlLines(p) == LET shown == {k \in 1..Len(pctls) : p.data[k] > 0} IN [k \in 1..Len(pctls) |-> IF k \in shown THEN <<pctls[k], p.data[k]>> ELSE <<>>]

printLatencies(rep) == SelectSeq(PctlLines(PctlRun(PctlInit, rep.Lats)), LAMBDA l : l # <<>>)

\* ---------------------------------------------------------------- print
printStatusCodes(rep, order) == [k \in 1..Len(order) |-> <<order[k], rep.StatusCodeDist[order[k]]>>]

printErrors(rep, order) == [k \in 1..Len(order) |-> <<rep.Errors[order[k]], order[k]>>]

printCSV(rep) == [k \in 1..Len(rep.Lats) |-> <<k, rep.Lats[k]>>]

NoOut == [sections |-> <<>>, summary |-> <<>>, status |-> <<>>, hist |-> <<>>, pctl |-> <<>>, errors |-> <<>>, csv |-> <<>>]

\* A faulty variant of ShowDetails: the output mode not looked at.
ShowDetailsAlways(rep) == TRUE

\* r.output != "quiet"
ShowDetails(rep) == rep.output # "quiet"

\* len(r.Errors) > 0
ShowErrors(rep) == MapLen(rep.Errors) > 0

Summary(rep) == <<<<"Total", rep.Total>>, <<"Slowest", rep.Slowest>>, <<"Fastest", rep.Fastest>>, <<"Average", rep.Average>>, <<"Requests/sec", rep.RPS>>>> \o (IF rep.SizeTotal > 0 THEN <<<<"Total Data Recieved", rep.SizeTotal>>, <<"Response Size per Request", rep.SizeTotal \div Len(rep.Lats)>>>> ELSE <<>>)

\* sort.Float64s(r.Lats)
SortLats(rep) == [rep EXCEPT !.Lats = SortFloat64s(@)]

\* A faulty variant of SetExtremes: the two ends exchanged.
SetExtremesSwapped(rep) == [rep EXCEPT !.Fastest = rep.Lats[Len(rep.Lats)], !.Slowest = rep.Lats[1]]

\* r.Fastest = r.Lats[0]; r.Slowest = r.Lats[len(r.Lats)-1]
SetExtremes(rep) == [rep EXCEPT !.Fastest = rep.Lats[1], !.Slowest = rep.Lats[Len(rep.Lats)]]

\* print: the Report it leaves and what it writes; so and eo are the orders in
\* which the two map ranges visit their keys.
print(rep0, so, eo) ==
  LET rep1 == SortLats(rep0)
      rep2 == IF rep1.output # "csv" /\ Len(rep1.Lats) > 0 THEN SetExtremes(rep1) ELSE rep1
      details == rep1.output # "csv" /\ Len(rep1.Lats) > 0 /\ ShowDetails(rep1)
      errs == rep1.output # "csv" /\ ShowErrors(rep1)
  IN [rep |-> rep2,
      out |-> [sections |-> (IF details THEN <<"summary", "status", "histogram", "latencies">> ELSE <<>>) \o (IF errs THEN <<"errors">> ELSE <<>>),
               summary |-> IF details THEN Summary(rep2) ELSE <<>>,
               status |-> IF details THEN printStatusCodes(rep2, so) ELSE <<>>,
               hist |-> IF details THEN printHistogram(rep2) ELSE <<>>,
               pctl |-> IF details THEN printLatencies(rep2) ELSE <<>>,
               errors |-> IF errs THEN printErrors(rep2, eo) ELSE <<>>,
               csv |-> IF rep1.output = "csv" THEN printCSV(rep1) ELSE <<>>]]

\* -------------------------------------------------------------------- state
VARIABLES
  results,     \* the buffered channel r.results
  prod,        \* each producer: "running" or "done"
  sent,        \* how many times each result was sent (history)
  r,           \* the Report
  pc,          \* finalize: "idle", "drain", "print", "done"
  total,       \* finalize's argument
  successCnt,  \* finalize's local
  joined,      \* whether every producer was done when finalize was invoked
  received,    \* results finalize took from the channel: [ok, err] (history)
  printCalls,  \* calls of print so far
  stdout,      \* what the latest print wrote
  ppc,         \* the rendering run: "off", "hist", "pctl", "end"
  hist,        \* printHistogram's locals
  pctl         \* printLatencies' locals

vars == <<results, prod, sent, r, pc, total, successCnt, joined, received, printCalls, stdout, ppc, hist, pctl>>

renderVars == <<ppc, hist, pctl>>

NSent == SumMap(sent)

AllDone == \A p \in Producers : prod[p] = "done"

Init ==
  /\ results = <<>>
  /\ prod = [p \in Producers |-> "running"]
  /\ sent = [x \in Results |-> 0]
  /\ \E output \in Outputs : r = newReport(output)
  /\ pc = "idle"
  /\ total = 0
  /\ successCnt = 0
  /\ joined = FALSE
  /\ received = [ok |-> 0, err |-> 0]
  /\ printCalls = 0
  /\ stdout = NoOut
  /\ ppc = "off"
  /\ hist = HistInit(newReport(""))
  /\ pctl = PctlInit

\* A producer sends one result; a send on a full channel blocks.
Send(p) ==
  /\ prod[p] = "running"
  /\ Len(results) < QueueCap
  /\ NSent < MaxResults
  /\ \E res \in Results :
       /\ results' = Append(results, res)
       /\ sent' = [sent EXCEPT ![res] = @ + 1]
  /\ UNCHANGED <<prod, r, pc, total, successCnt, joined, received, printCalls, stdout, renderVars>>

\* A producer terminates.
Finish(p) ==
  /\ prod[p] = "running"
  /\ prod' = [prod EXCEPT ![p] = "done"]
  /\ UNCHANGED <<results, sent, r, pc, total, successCnt, joined, received, printCalls, stdout, renderVars>>

\* The caller invokes finalize(total).
Invoke ==
  /\ pc = "idle"
  /\ pc' = "drain"
  /\ successCnt' = 0
  /\ \E t \in Totals : total' = t
  /\ joined' = AllDone
  /\ UNCHANGED <<results, prod, sent, r, received, printCalls, stdout, renderVars>>

\* finalize, case res := <-r.results
Receive ==
  /\ pc = "drain"
  /\ results # <<>>
  /\ LET res == Head(results) IN
       /\ r' = Fold(r, res)
       /\ successCnt' = FoldSuccess(successCnt, res)
       /\ received' = IF res.err # NoErr THEN [received EXCEPT !.err = @ + 1] ELSE [received EXCEPT !.ok = @ + 1]
  /\ results' = Tail(results)
  /\ UNCHANGED <<prod, sent, pc, total, joined, printCalls, stdout, renderVars>>

\* A faulty variant of DefaultReady: the default case taken whatever the channel holds.
DefaultAnyTime(q) == TRUE

\* A faulty variant of DefaultReady: a drain that waits for the producers.
DefaultWhenProducersDone(q) == q = <<>> /\ AllDone

\* The select's default case is taken when no receive is ready.
DefaultReady(q) == q = <<>>

\* finalize, default: the derived totals; print is called next.
Default ==
  /\ pc = "drain"
  /\ DefaultReady(results)
  /\ r' = SetTotals(r, total, successCnt)
  /\ pc' = "print"
  /\ UNCHANGED <<results, prod, sent, total, successCnt, joined, received, printCalls, stdout, renderVars>>

\* r.print(): from finalize (which then returns), or again on the drained Report.
CallPrint ==
  /\ pc \in {"print", "done"}
  /\ printCalls < MaxPrints
  /\ \E so \in Perms(Keys(r.StatusCodeDist)), eo \in Perms(Keys(r.Errors)) :
       LET p == print(r, so, eo) IN r' = p.rep /\ stdout' = p.out
  /\ printCalls' = printCalls + 1
  /\ pc' = "done"
  /\ UNCHANGED <<results, prod, sent, total, successCnt, joined, received, renderVars>>

Next ==
  \/ \E p \in Producers : Send(p)
  \/ \E p \in Producers : Finish(p)
  \/ Invoke
  \/ Receive
  \/ Default
  \/ CallPrint

Spec == Init /\ [][Next]_vars

\* The same program with the scheduling of finalize's loop stated: the
\* goroutine running finalize is not suspended for ever, so an iteration of
\* the select that can run eventually runs.
FairSpec == Spec /\ WF_vars(Receive) /\ WF_vars(Default)

\* ------------------------------------------------------- the rendering runs
\* printHistogram and printLatencies, one loop iteration per step, on the
\* Reports print hands them: Lats sorted by SortLats, Fastest and Slowest set
\* by SetExtremes, for every latency slice of 1..MaxLen values in 0..MaxDur.
\* The channel, the producers and finalize take no step in these runs: print
\* has been called on a Report that holds the latencies.
RECURSIVE Repeat(_, _)
Repeat(x, n) == IF n = 0 THEN <<>> ELSE <<x>> \o Repeat(x, n - 1)

RECURSIVE Expand(_, _)
Expand(c, v) == IF v < 0 THEN <<>> ELSE Repeat(v, c[v]) \o Expand(c, v - 1)

\* The latency slices, each as it arrives slowest first.
LatSlices == {Expand(c, MaxDur) : c \in {d \in [0..MaxDur -> 0..MaxLen] : SumMap(d) \in 1..MaxLen}}

RenderInit ==
  /\ results = <<>>
  /\ prod = [p \in Producers |-> "done"]
  /\ sent = [x \in Results |-> 0]
  /\ \E lats \in LatSlices :
       /\ r = SetExtremes(SortLats([newReport("") EXCEPT !.Lats = lats]))
       /\ received = [ok |-> Len(lats), err |-> 0]
  /\ pc = "print"
  /\ total = 0
  /\ successCnt = 0
  /\ joined = TRUE
  /\ printCalls = 0
  /\ stdout = NoOut
  /\ ppc = "hist"
  /\ hist = HistInit(r)
  /\ pctl = PctlInit

progVars == <<results, prod, sent, r, pc, total, successCnt, joined, received, printCalls, stdout>>

\* printHistogram: one iteration of the counting loop.
HistLoop ==
  /\ ppc = "hist"
  /\ HistMore(hist, r.Lats)
  /\ hist' = HistStep(hist, r.Lats)
  /\ UNCHANGED <<progVars, ppc, pctl>>

\* printHistogram returns; printLatencies starts.
HistEnd ==
  /\ ppc = "hist"
  /\ ~HistMore(hist, r.Lats)
  /\ ppc' = "pctl"
  /\ pctl' = PctlInit
  /\ UNCHANGED <<progVars, hist>>

\* printLatencies: one iteration of the recording loop.
PctlLoop ==
  /\ ppc = "pctl"
  /\ PctlMore(pctl, r.Lats)
  /\ pctl' = PctlStep(pctl, r.Lats)
  /\ UNCHANGED <<progVars, ppc, hist>>

\* The recording loop ends.
PctlEnd ==
  /\ ppc = "pctl"
  /\ ~PctlMore(pctl, r.Lats)
  /\ ppc' = "end"
  /\ UNCHANGED <<progVars, hist, pctl>>

RenderNext ==
  \/ HistLoop
  \/ HistEnd
  \/ PctlLoop
  \/ PctlEnd

RenderSpec == RenderInit /\ [][RenderNext]_vars

\* ------------------------------------------------------------------ claims
Drained == pc \in {"print", "done"}

NReceived == received.ok + received.err

\* Non-error results counted under a status code outside [200, 300).
NonSuccess(rep) == SumOver(rep.StatusCodeDist, {c \in Codes : ~(200 <= c /\ c < 300)})

\* C1 as stated: after the drain, successCnt plus the sum of the Errors counts
\* is the number of results finalize received.
C1_SuccessPlusErrorsIsTotal == Drained => successCnt + SumMap(r.Errors) = NReceived

\* C1 amended: after the drain, successCnt, plus the StatusCodeDist counts of
\* the status codes outside [200, 300), plus the sum of the Errors counts is
\* the number of results finalize received.
C1_SuccessNonSuccessErrorsIsTotal == Drained => successCnt + NonSuccess(r) + SumMap(r.Errors) = NReceived

C1_Witness == pc = "done" /\ successCnt > 0 /\ NonSuccess(r) > 0 /\ SumMap(r.Errors) > 0

\* C2: every result finalize receives takes exactly one path. With an error it
\* increments exactly one Errors entry and leaves Lats, AvgTotal,
\* StatusCodeDist, SizeTotal and successCnt alone; without one it appends one
\* entry to Lats, increments exactly one StatusCodeDist entry and leaves Errors
\* alone. After the drain len(Lats) is the number of non-error results
\* received and the Errors counts sum to the number of error results received.
C2_OnePath ==
  /\ [][received' # received =>
          IF Head(results).err # NoErr
          THEN /\ \E e \in Errs : r'.Errors = [r.Errors EXCEPT ![e] = @ + 1]
               /\ r'.Lats = r.Lats
               /\ r'.AvgTotal = r.AvgTotal
               /\ r'.StatusCodeDist = r.StatusCodeDist
               /\ r'.SizeTotal = r.SizeTotal
               /\ successCnt' = successCnt
          ELSE /\ Len(r'.Lats) = Len(r.Lats) + 1
               /\ \E c \in Codes : r'.StatusCodeDist = [r.StatusCodeDist EXCEPT ![c] = @ + 1]
               /\ r'.Errors = r.Errors]_vars
  /\ [](Drained => Len(r.Lats) = received.ok /\ SumMap(r.Errors) = received.err)

C2_Witness == pc = "done" /\ received.ok > 0 /\ received.err > 0 /\ Len(r.Lats) = received.ok

\* C3: when every producer had finished before finalize was invoked, then at
\* the call of print the channel is empty and the aggregate holds every result
\* sent exactly once: the Errors and StatusCodeDist counts, the latencies,
\* SizeTotal, AvgTotal and successCnt are those of the results sent.
C3_JoinedDrainIsComplete ==
  (Drained /\ joined) =>
     /\ results = <<>>
     /\ NReceived = NSent
     /\ \A e \in Errs : r.Errors[e] = SumOver(sent, {x \in ErrResults : x.err = e})
     /\ \A c \in Codes : r.StatusCodeDist[c] = SumOver(sent, {x \in OkResults : x.statusCode = c})
     /\ \A d \in Durations : Occ(r.Lats, d) = SumOver(sent, {x \in OkResults : x.duration = d})
     /\ Len(r.Lats) = SumOver(sent, OkResults)
     /\ r.SizeTotal = SumOver([x \in OkResults |-> sent[x] * x.contentLength], OkResults)
     /\ r.AvgTotal = SumOver([x \in OkResults |-> sent[x] * x.duration], OkResults)
     /\ successCnt = SumOver(sent, {x \in OkResults : x.statusCode \in 200..299})

C3_Witness == pc = "print" /\ joined /\ NSent >= 2 /\ received.ok > 0 /\ received.err > 0

\* C4: finalize divides by zero nowhere: with no latency aggregated Average is
\* left at zero, and with a zero total RPS and SuccessRPS are left at zero.
C4_NoDivisionByZero ==
  Drained =>
     /\ (Len(r.Lats) = 0 => r.Average = FZero)
     /\ (r.Total = 0 => r.RPS = FZero /\ r.SuccessRPS = FZero)
     /\ r.Average.cls = "fin" /\ r.RPS.cls = "fin" /\ r.SuccessRPS.cls = "fin"

\* The aggregate fields C5 names.
Aggregate(rep) == <<rep.Lats, rep.StatusCodeDist, rep.Errors, rep.SizeTotal, rep.Fastest, rep.Slowest, rep.Average, rep.RPS>>

Range(s) == {s[k] : k \in 1..Len(s)}

\* The same output but for the order of the lines of the two map ranges.
SameButMapOrder(a, b) ==
  /\ a.sections = b.sections /\ a.summary = b.summary /\ a.hist = b.hist
  /\ a.pctl = b.pctl /\ a.csv = b.csv
  /\ Len(a.status) = Len(b.status) /\ Range(a.status) = Range(b.status)
  /\ Len(a.errors) = Len(b.errors) /\ Range(a.errors) = Range(b.errors)

\* C5 as stated: print changes none of the aggregate fields, and a second
\* print writes the lines the first one wrote.
C5_PrintIsReadOnlyAndIdempotent ==
  [][printCalls' # printCalls => (Aggregate(r') = Aggregate(r) /\ (printCalls >= 1 => stdout' = stdout))]_vars

\* C5 amended: print sorts Lats ascending in place (the same values) and,
\* outside csv mode with Lats not empty, sets Fastest and Slowest to the first
\* and last of them; it changes no other field. A print that follows another
\* changes no field at all and writes the same lines, but for the order of
\* the status code lines and of the error lines.
C5_PrintSortsThenIsStable ==
  [][printCalls' # printCalls =>
       /\ IsSorted(r'.Lats) /\ Len(r'.Lats) = Len(r.Lats)
       /\ \A d \in Durations : Occ(r'.Lats, d) = Occ(r.Lats, d)
       /\ IF r.output # "csv" /\ Len(r.Lats) > 0
          THEN r'.Fastest = r'.Lats[1] /\ r'.Slowest = r'.Lats[Len(r'.Lats)]
          ELSE r'.Fastest = r.Fastest /\ r'.Slowest = r.Slowest
       /\ [r' EXCEPT !.Lats = <<>>, !.Fastest = 0, !.Slowest = 0] = [r EXCEPT !.Lats = <<>>, !.Fastest = 0, !.Slowest = 0]
       /\ (printCalls >= 1 => r' = r /\ SameButMapOrder(stdout', stdout))]_vars

C5_Witness == printCalls = 2 /\ r.output = "" /\ Len(r.Lats) >= 2 /\ r.Fastest < r.Slowest /\ Len(stdout.status) = 2 /\ Len(stdout.errors) >= 1

\* C6: in default mode the summary, the status code distribution, the
\* histogram and the percentile table are written, in that order, iff Lats is
\* not empty; in quiet mode none of them is; in both the error distribution
\* follows iff an error was counted. With no result nothing is written.
C6_SectionGating ==
  pc = "done" =>
     LET body == IF Len(r.Lats) > 0 THEN <<"summary", "status", "histogram", "latencies">> ELSE <<>>
         errs == IF received.err > 0 THEN <<"errors">> ELSE <<>>
     IN /\ r.output = "" => stdout.sections = body \o errs
        /\ r.output = "quiet" => stdout.sections = errs
        /\ r.output # "csv" => stdout.csv = <<>>
        /\ NReceived = 0 => stdout = NoOut

C6_Witness == pc = "done" /\ r.output = "quiet" /\ Len(r.Lats) > 0 /\ stdout.sections = <<"errors">>

\* C7: the counting loop of printHistogram always has a step to take until it
\* has counted every latency (each step advances i or bi, and bi <= bc), it
\* counts each latency in one bucket, so that the 11 counts sum to len(Lats),
\* and with Slowest = Fastest all edges are one value and one bucket holds
\* every latency.
C7_HistogramCountsAll ==
  /\ ppc = "hist" =>
       /\ hist.i <= Len(r.Lats) /\ hist.bi <= bc
       /\ SumSeq(hist.counts) = hist.i
       /\ HistMore(hist, r.Lats) => HistStep(hist, r.Lats) # hist
  /\ ppc \in {"pctl", "end"} =>
       /\ SumSeq(hist.counts) = Len(r.Lats)
       /\ r.Slowest = r.Fastest =>
            /\ \A k \in 1..bc + 1 : hist.buckets[k] = hist.buckets[1]
            /\ \E k \in 1..bc + 1 : hist.counts[k] = Len(r.Lats)

C7_Witness == ppc = "end" /\ Len(r.Lats) >= 4 /\ r.Fastest < r.Slowest /\ Cardinality({k \in 1..bc + 1 : hist.counts[k] > 0}) >= 3

\* C8: the values printLatencies records are non-decreasing in the target,
\* and the targets recorded are a prefix of the target list.
C8_PercentilesMonotone ==
  ppc \in {"pctl", "end"} =>
     /\ \A a, b \in pctl.assigned : a < b => pctl.data[a + 1] <= pctl.data[b + 1]
     /\ pctl.assigned = 0..Cardinality(pctl.assigned) - 1

C8_Witness == ppc = "end" /\ Cardinality(pctl.assigned) >= 4 /\ pctl.data[1] < pctl.data[4]

\* The indices whose rank reaches target t (0-based) in a slice of n.
Reaching(t, n) == {i \in 0..n - 1 : (i * 100) \div n >= pctls[t + 1]}

Min(S) == CHOOSE x \in S : \A y \in S : x <= y

\* C9: printLatencies records, for each target whose rank some index reaches,
\* the latency at the smallest such index, and nothing for the other targets.
C9_NearestRank ==
  ppc = "end" =>
     \A t \in 0..Len(pctls) - 1 :
        IF Reaching(t, Len(r.Lats)) # {}
        THEN t \in pctl.assigned /\ pctl.data[t + 1] = r.Lats[Min(Reaching(t, Len(r.Lats))) + 1]
        ELSE t \notin pctl.assigned

\* The fields finalize folds results into.
Folded(rep) == <<Len(rep.Lats), rep.AvgTotal, rep.StatusCodeDist, rep.Errors, rep.SizeTotal>>

\* C10: finalize never waits on the channel: while draining it always has a
\* step to take, and the drain loop ends (finalize reaches its call of print);
\* the first time it finds the channel empty it sets the derived totals and
\* goes on to print, which it calls once before it returns; and a result
\* sent after that is never folded.
C10_NeverWaits ==
  /\ [](pc = "drain" => ENABLED (Receive \/ Default))
  /\ [][(pc = "drain" /\ results = <<>> /\ (pc' # pc \/ r' # r \/ received' # received)) =>
          /\ pc' = "print" /\ received' = received /\ printCalls' = printCalls
          /\ r' = [r EXCEPT !.Total = total, !.RPS = r'.RPS, !.SuccessRPS = r'.SuccessRPS, !.Average = r'.Average]]_vars
  /\ [](pc = "print" => printCalls = 0)
  /\ [][(pc = "print" /\ (pc' # pc \/ r' # r \/ printCalls' # printCalls)) => (pc' = "done" /\ printCalls = 0 /\ printCalls' = 1)]_vars
  /\ [][Drained => (Drained' /\ received' = received /\ successCnt' = successCnt /\ Folded(r') = Folded(r))]_vars
  /\ (pc = "drain") ~> (pc = "print")

C10_Witness == pc = "done" /\ ~joined /\ results # <<>> /\ NSent > NReceived /\ NReceived > 0

====
